---------------------------- MODULE Spec2Model ----------------------------
(***************************************************************************)
(* TabToPDF.convert of songsterr_downloader.py as a state machine.         *)
(*                                                                         *)
(* Python dicts are functions whose DOMAIN is the set of keys present, so  *)
(* that dict.get(key, default) is modelled by what it does.  None and the  *)
(* empty list/dict are the empty function << >> (all are falsy and are     *)
(* only ever tested for truth by the code).  Lengths are integers in       *)
(* hundredths of a millimetre; quantities the code obtains by true         *)
(* division of durations are exact rationals <<p, q>> with q > 0.          *)
(***************************************************************************)
EXTENDS Integers, Sequences, FiniteSets, TLC

VARIABLES
    data,               \* json.load(f): the tab document
    track_info,         \* convert's optional argument (<< >> when None)
    pc,                 \* position inside convert
    result,             \* "pending", "None", "output_path" or "raised"
    canvas,             \* "none", "open" or "saved"
    saves,              \* number of c.save() calls
    page,               \* number of c.showPage() calls so far
    ops,                \* the drawing: every draw call, in order
    num_strings,
    tuning,
    is_drums,
    start_measure,
    current_x,
    current_y,
    measure_count,
    line_height,
    current_signature,  \* << >> is None
    last_shown_tempo,   \* << >> is None, else <<bpm>>
    is_first_line,
    measure_idx,        \* 0-based loop index of range(start_measure, len(measures))
    beat_widths         \* the beat_width values computed for the measure drawn last

vars == <<data, track_info, pc, result, canvas, saves, page, ops, num_strings,
          tuning, is_drums, start_measure, current_x, current_y, measure_count,
          line_height, current_signature, last_shown_tempo, is_first_line,
          measure_idx, beat_widths>>

-----------------------------------------------------------------------------
(* Bounds of the model. *)
MaxShort == 4           \* measures of a signature/rest document
MaxBeats == 3           \* beats of the first voice of a beat document
MaxNotes == 2           \* notes of the beat of a note document
MaxMeasures == 33       \* measures of a long (pagination, percussion) document
MaxTall == 8            \* measures of a document with a very large string count
MaxTempoMeasures == 9   \* measures of a tempo document

-----------------------------------------------------------------------------
(* Layout constants of TabToPDF.__init__ and of reportlab's A4. *)
mm == 100
PageWidth == 210 * mm
PageHeight == 297 * mm
margin == 15 * mm
string_spacing == (32 * mm) \div 10
measures_per_line == 4
line_spacing == 18 * mm
ScanLimit == 30
DefaultStrings == 6
DefaultBpm == 120
DefaultType == 4
DefaultDuration == <<1, 4>>

usable_width == PageWidth - 2 * margin - 15 * mm
measure_width == usable_width \div measures_per_line
tab_x_start == margin + 15 * mm
usable_measure_width == measure_width - 6 * mm
FirstLineY == PageHeight - margin - 7 * mm - 5 * mm - 8 * mm
NextPageY == PageHeight - margin - 10 * mm

-----------------------------------------------------------------------------
(* Python primitives. *)
None == << >>

Get(d, k, default) == IF k \in DOMAIN d THEN d[k] ELSE default

Truthy(v) == v # << >>

Max(a, b) == IF a >= b THEN a ELSE b

\* A JSON scalar held by a note's 'string' key: a number (in tenths, so that
\* 2.5 is 25) or a text that float() cannot parse.
Num(t) == [kind |-> "number", tenths |-> t]
Text == [kind |-> "text", tenths |-> 0]

\* float(s) raises ValueError on a non-numeric text.
FloatRaises(s) == s.kind = "text"

\* int(float(s)): truncation toward zero.
IntFloat(s) ==
    IF s.tenths >= 0 THEN s.tenths \div 10 ELSE -((-s.tenths) \div 10)

\* 'drum' in name.lower(), over the instrument names the model draws from.
ContainsDrum(name) == name \in {"Drums", "DRUM KIT"}

RECURSIVE Gcd(_, _)
Gcd(a, b) == IF b = 0 THEN a ELSE Gcd(b, a % b)

Abs(a) == IF a < 0 THEN -a ELSE a

\* Exact rationals <<p, q>>, q > 0, in lowest terms.
Norm(p, q) ==
    LET g == Gcd(Abs(p), Abs(q))
        s == IF q < 0 THEN -1 ELSE 1
    IN  <<(s * p) \div g, (s * q) \div g>>

RInt(n) == <<n, 1>>
RAdd(a, b) == Norm(a[1] * b[2] + b[1] * a[2], a[2] * b[2])
RMul(a, b) == Norm(a[1] * b[1], a[2] * b[2])
RDiv(a, b) == Norm(a[1] * b[2], a[2] * b[1])

RECURSIVE Reverse(_)
Reverse(s) == IF s = << >> THEN << >> ELSE Append(Reverse(Tail(s)), Head(s))

RECURSIVE SeqsUpTo(_, _)
SeqsUpTo(S, n) ==
    IF n = 0 THEN {<< >>}
    ELSE LET shorter == SeqsUpTo(S, n - 1)
         IN  shorter \cup {Append(s, x) : s \in {t \in shorter : Len(t) = n - 1}, x \in S}

-----------------------------------------------------------------------------
(* TabToPDF's helpers. *)

MIDI_TO_NOTE ==
    [m \in {28, 33, 38, 43, 48, 40, 45, 50, 55, 59, 64, 36, 41, 46} |->
        CASE m \in {28, 40} -> "E"
          [] m \in {33, 45} -> "A"
          [] m \in {38, 50} -> "D"
          [] m \in {43, 55} -> "G"
          [] m \in {48, 36} -> "C"
          [] m \in {59, 46} -> "B"
          [] m = 64 -> "e"
          [] m = 41 -> "F"]

MidiName(m) == IF m \in DOMAIN MIDI_TO_NOTE THEN MIDI_TO_NOTE[m] ELSE "?"

drum_labels == <<"HH", "SD", "BD", "T1", "T2", "CR", "RD", "CH">>
standard_labels == <<"e", "B", "G", "D", "A", "E">>

\* _find_first_content_measure: the 0-based index of the first measure whose
\* 'rest' is falsy (missing counts as False), 0 when there is none.
RECURSIVE FirstContentFrom(_, _)
FirstContentFrom(measures, i) ==
    IF i >= Len(measures) THEN 0
    ELSE IF ~Get(measures[i + 1], "rest", FALSE) THEN Max(0, i)
    ELSE FirstContentFrom(measures, i + 1)

\* Mutant: the walk always starts at the first measure of the document.
StartAtFirstMeasure(measures) == 0

find_first_content_measure(measures) == FirstContentFrom(measures, 0)

\* _get_tempo_at_measure: walk the breakpoints in list order, stop at the
\* first one that lies after measure_idx.
RECURSIVE TempoWalk(_, _, _, _)
TempoWalk(tempo_changes, i, at, current_bpm) ==
    IF i > Len(tempo_changes) THEN current_bpm
    ELSE IF Get(tempo_changes[i], "measure", 0) <= at
         THEN TempoWalk(tempo_changes, i + 1, at,
                        Get(tempo_changes[i], "bpm", DefaultBpm))
         ELSE current_bpm

get_tempo_at_measure(automations, at) ==
    TempoWalk(Get(automations, "tempo", << >>), 1, at, DefaultBpm)

\* _draw_rhythm_stem: the number of flag strokes drawn on the stem.
StemFlags(duration_type) ==
    IF duration_type >= 8
    THEN IF duration_type = 8 THEN 1
         ELSE IF duration_type = 16 THEN 2
         ELSE IF duration_type >= 32 THEN 3
         ELSE 0
    ELSE 0

-----------------------------------------------------------------------------
(* convert, lines 131-159: normalisation. *)

Measures(d) == Get(d, "measures", << >>)

TrackTuning(ti) == IF Truthy(ti) THEN Get(ti, "tuning", None) ELSE None

\* lines 137-139
DeclaredStrings(d, ti) ==
    IF Truthy(ti) /\ Truthy(Get(ti, "tuning", None))
    THEN Len(ti["tuning"])
    ELSE Get(d, "strings", DefaultStrings)

\* line 141
EffectiveTuning(d, ti) == Get(d, "tuning", TrackTuning(ti))

\* lines 143-147
IsDrums(d, ti) ==
    LET byTrack == IF Truthy(ti) THEN ContainsDrum(Get(ti, "instrument", "")) ELSE FALSE
    IN  IF ~byTrack /\ Get(d, "instrument", "") # ""
        THEN ContainsDrum(Get(d, "instrument", ""))
        ELSE byTrack

\* Mutant: the percussion scan reads every measure.
ScanWholeDocument(measures) == measures

\* line 151: measures[:30]
ScanPrefix(measures) == SubSeq(measures, 1, IF Len(measures) < ScanLimit THEN Len(measures) ELSE ScanLimit)

\* lines 151-155: every note of every voice of the scanned measures, in order.
RECURSIVE Flatten(_)
Flatten(ss) == IF ss = << >> THEN << >> ELSE Head(ss) \o Flatten(Tail(ss))

BeatNotes(voice) ==
    Flatten([b \in DOMAIN Get(voice, "beats", << >>) |-> Get(Get(voice, "beats", << >>)[b], "notes", << >>)])

MeasureNotes(measure) ==
    Flatten([v \in DOMAIN Get(measure, "voices", << >>) |-> BeatNotes(Get(measure, "voices", << >>)[v])])

ScannedNotes(measures) ==
    Flatten([m \in DOMAIN ScanPrefix(measures) |-> MeasureNotes(ScanPrefix(measures)[m])])

NoteString(note) == Get(note, "string", Num(0))

\* line 156 raises ValueError on the first note whose string is not numeric.
ScanRaises(measures) ==
    \E i \in DOMAIN ScannedNotes(measures) : FloatRaises(NoteString(ScannedNotes(measures)[i]))

\* lines 150-156
RECURSIVE MaxStringFrom(_, _, _)
MaxStringFrom(notes, i, max_string) ==
    IF i > Len(notes) THEN max_string
    ELSE MaxStringFrom(notes, i + 1, Max(max_string, IntFloat(NoteString(notes[i])) + 1))

\* line 157
DrumStrings(measures) == Max(MaxStringFrom(ScannedNotes(measures), 1, 0), 5)

\* Mutant: a tuning supplied by track_info wins over the percussion scan.
ResolveStringsTuningFirst(d, ti) ==
    IF Truthy(ti) /\ Truthy(Get(ti, "tuning", None)) THEN Len(ti["tuning"])
    ELSE IF IsDrums(d, ti) THEN DrumStrings(Measures(d))
    ELSE Get(d, "strings", DefaultStrings)

\* lines 137-157
ResolveStrings(d, ti) ==
    IF IsDrums(d, ti) THEN DrumStrings(Measures(d)) ELSE DeclaredStrings(d, ti)

-----------------------------------------------------------------------------
(* convert, lines 259-308: the beats of a measure's first voice. *)

\* lines 259-261
FirstVoiceBeats(measure) ==
    LET voices == Get(measure, "voices", << >>)
    IN  IF Truthy(voices) THEN Get(voices[1], "beats", << >>) ELSE << >>

BeatDuration(beat) == Get(beat, "duration", DefaultDuration)

\* duration[0] / duration[1] raises ZeroDivisionError on a zero denominator.
DurationRaises(beats) == \E i \in DOMAIN beats : BeatDuration(beats[i])[2] = 0

DurationFraction(beat) == Norm(BeatDuration(beat)[1], BeatDuration(beat)[2])

RECURSIVE SumFractions(_, _)
SumFractions(beats, i) ==
    IF i > Len(beats) THEN RInt(0)
    ELSE RAdd(DurationFraction(beats[i]), SumFractions(beats, i + 1))

\* lines 263-265
TotalDuration(beats) ==
    IF SumFractions(beats, 1)[1] = 0 THEN RInt(1) ELSE SumFractions(beats, 1)

\* Mutant: the beat's fraction is not divided by the measure's total.
BeatWidthUnnormalised(beats, i) ==
    RMul(RInt(usable_measure_width), DurationFraction(beats[i]))

\* lines 271-273
BeatWidth(beats, i) ==
    RMul(RInt(usable_measure_width), RDiv(DurationFraction(beats[i]), TotalDuration(beats)))

\* line 289: the test that lets a note be drawn on a string line
OnStaff(string_idx, n) == string_idx < n

\* lines 280-299: the notes of one beat. acc = [ops, has_notes, raised].
RECURSIVE WalkNotes(_, _, _, _, _, _, _, _)
WalkNotes(notes, j, acc, at, beat_idx, note_x, y, n) ==
    IF j > Len(notes) \/ acc.raised THEN acc
    ELSE LET note == notes[j] IN
         IF Get(note, "rest", FALSE)
         THEN WalkNotes(notes, j + 1, acc, at, beat_idx, note_x, y, n)
         ELSE IF "fret" \notin DOMAIN note
         THEN WalkNotes(notes, j + 1, acc, at, beat_idx, note_x, y, n)
         ELSE IF FloatRaises(NoteString(note))
         THEN [acc EXCEPT !.has_notes = TRUE, !.raised = TRUE]
         ELSE LET string_idx == IntFloat(NoteString(note))
                  drawn == [op |-> "note", idx |-> at, beat |-> beat_idx,
                            string |-> string_idx, fret |-> note["fret"],
                            x |-> note_x, y |-> y - string_idx * string_spacing,
                            page |-> page]
              IN  WalkNotes(notes, j + 1,
                            [acc EXCEPT !.has_notes = TRUE,
                                        !.ops = IF OnStaff(string_idx, n)
                                                THEN Append(@, drawn) ELSE @],
                            at, beat_idx, note_x, y, n)

\* lines 301-306
StemOps(beat, has_notes, at, beat_idx, note_x, y, n) ==
    IF has_notes
    THEN <<[op |-> "stem", idx |-> at, beat |-> beat_idx, x |-> note_x,
            y |-> y - (n - 1) * string_spacing,
            flags |-> StemFlags(Get(beat, "type", DefaultType)), page |-> page]>>
    ELSE << >>

\* lines 270-308: the beats in order. acc = [ops, widths, raised].
RECURSIVE WalkBeats(_, _, _, _, _, _, _)
WalkBeats(beats, i, beat_x, acc, at, y, n) ==
    IF i > Len(beats) \/ acc.raised THEN acc
    ELSE LET beat_width == BeatWidth(beats, i)
             note_x == RAdd(beat_x, RMul(beat_width, <<3, 10>>))
             done == WalkNotes(Get(beats[i], "notes", << >>), 1,
                               [ops |-> << >>, has_notes |-> FALSE, raised |-> FALSE],
                               at, i - 1, note_x, y, n)
             stem == IF done.raised THEN << >>
                     ELSE StemOps(beats[i], done.has_notes, at, i - 1, note_x, y, n)
         IN  WalkBeats(beats, i + 1, RAdd(beat_x, beat_width),
                       [ops |-> acc.ops \o done.ops \o stem,
                        widths |-> Append(acc.widths, beat_width),
                        raised |-> done.raised],
                       at, y, n)

\* lines 259-308 for one measure drawn at (x, y) with n string lines
MeasureContent(measure, at, x, y, n) ==
    LET beats == FirstVoiceBeats(measure)
    IN  IF beats = << >> THEN [ops |-> << >>, widths |-> << >>, raised |-> FALSE]
        ELSE IF DurationRaises(beats) THEN [ops |-> << >>, widths |-> << >>, raised |-> TRUE]
        ELSE WalkBeats(beats, 1, RInt(x + 3 * mm),
                       [ops |-> << >>, widths |-> << >>, raised |-> FALSE], at, y, n)

-----------------------------------------------------------------------------
(* convert, lines 199-239: the head of one loop iteration. *)

CurrentMeasure == Measures(data)[measure_idx + 1]

\* line 202
LineFull == measure_count >= measures_per_line

\* Mutant: the page is broken only once the line's top is below the margin.
NeedsNewPageBelowMargin(y) == y < margin

\* line 208, evaluated on the vertical position of the new line
NeedsNewPage(y) == y < margin + line_height

\* lines 202-211: the layout cursor after the line/page break
NewPage == LineFull /\ NeedsNewPage(current_y - line_height)

CursorX == IF LineFull THEN tab_x_start ELSE current_x

CursorY ==
    IF LineFull
    THEN IF NewPage THEN NextPageY ELSE current_y - line_height
    ELSE current_y

CursorCount == IF LineFull THEN 0 ELSE measure_count

CursorFirstLine == IF LineFull THEN NewPage ELSE is_first_line

CursorPage == IF NewPage THEN page + 1 ELSE page

\* lines 213-215
CarrySignature(measure, active) ==
    LET measure_signature == Get(measure, "signature", active)
    IN  IF Truthy(measure_signature) THEN measure_signature ELSE active

\* lines 220-231
LineLabels ==
    IF is_drums
    THEN [i \in 1..num_strings |->
            IF i <= Len(drum_labels) THEN drum_labels[i] ELSE ToString(i)]
    ELSE IF Truthy(tuning)
    THEN [i \in DOMAIN tuning |-> MidiName(tuning[i])]
    ELSE SubSeq(standard_labels, 1,
                IF num_strings < Len(standard_labels)
                THEN Max(num_strings, 0) ELSE Len(standard_labels))

\* line 233
ShowsSignature(signature, first_line, at) ==
    Truthy(signature) /\ (first_line \/ at = start_measure)

\* line 237
TempoChanged(current_tempo, shown) == <<current_tempo>> # shown

\* lines 217-239: what is drawn at the start of a line
LineHeadOps(signature) ==
    LET current_tempo == get_tempo_at_measure(Get(data, "automations", << >>), measure_idx)
    IN  <<[op |-> "labels", idx |-> measure_idx, names |-> LineLabels,
           y |-> CursorY, page |-> CursorPage]>>
        \o (IF ShowsSignature(signature, CursorFirstLine, measure_idx)
            THEN <<[op |-> "timesig", idx |-> measure_idx, signature |-> signature,
                    x |-> tab_x_start - 10 * mm, y |-> CursorY, page |-> CursorPage]>>
            ELSE << >>)
        \o (IF TempoChanged(current_tempo, last_shown_tempo)
            THEN <<[op |-> "tempo", idx |-> measure_idx, bpm |-> current_tempo,
                    x |-> CursorX, y |-> CursorY, page |-> CursorPage]>>
            ELSE << >>)

-----------------------------------------------------------------------------
(* The actions: convert, step by step. *)

\* Mutant: the canvas is created before the emptiness test.
LoadEmptyAfterCanvas ==
    /\ pc = "start"
    /\ ~Truthy(Measures(data))
    /\ canvas' = "open"
    /\ pc' = "returned"
    /\ result' = "None"
    /\ UNCHANGED <<data, track_info, saves, page, ops, num_strings, tuning,
                   is_drums, start_measure, current_x, current_y, measure_count,
                   line_height, current_signature, last_shown_tempo, is_first_line,
                   measure_idx, beat_widths>>

\* lines 131-133: no measures, return None before the canvas exists
LoadEmpty ==
    /\ pc = "start"
    /\ ~Truthy(Measures(data))
    /\ pc' = "returned"
    /\ result' = "None"
    /\ UNCHANGED <<data, track_info, canvas, saves, page, ops, num_strings, tuning,
                   is_drums, start_measure, current_x, current_y, measure_count,
                   line_height, current_signature, last_shown_tempo, is_first_line,
                   measure_idx, beat_widths>>

\* lines 135-159
Normalize ==
    /\ pc = "start"
    /\ Truthy(Measures(data))
    /\ ~(IsDrums(data, track_info) /\ ScanRaises(Measures(data)))
    /\ num_strings' = ResolveStrings(data, track_info)
    /\ tuning' = EffectiveTuning(data, track_info)
    /\ is_drums' = IsDrums(data, track_info)
    /\ start_measure' = find_first_content_measure(Measures(data))
    /\ pc' = "normalized"
    /\ UNCHANGED <<data, track_info, result, canvas, saves, page, ops, current_x,
                   current_y, measure_count, line_height, current_signature,
                   last_shown_tempo, is_first_line, measure_idx, beat_widths>>

\* line 156: the percussion scan meets a string that float() rejects
NormalizeRaise ==
    /\ pc = "start"
    /\ Truthy(Measures(data))
    /\ IsDrums(data, track_info) /\ ScanRaises(Measures(data))
    /\ num_strings' = DeclaredStrings(data, track_info)
    /\ tuning' = EffectiveTuning(data, track_info)
    /\ is_drums' = TRUE
    /\ pc' = "raised"
    /\ result' = "raised"
    /\ UNCHANGED <<data, track_info, canvas, saves, page, ops, start_measure, current_x, current_y, measure_count, line_height,
                   current_signature, last_shown_tempo, is_first_line, measure_idx,
                   beat_widths>>

\* lines 161-197: open the canvas, draw the header, set the layout cursor
HeaderOps ==
    LET artist == IF Truthy(track_info) THEN Get(track_info, "artist", "") ELSE ""
        title == IF Truthy(track_info) THEN Get(track_info, "title", "") ELSE ""
        instrument == IF Truthy(track_info) THEN Get(track_info, "instrument", "")
                      ELSE Get(data, "instrument", "")
    IN  (IF artist # "" /\ title # ""
         THEN <<[op |-> "title", idx |-> -1, artist |-> artist, title |-> title,
                 y |-> PageHeight - margin, page |-> 0]>>
         ELSE << >>)
        \o <<[op |-> "instrument", idx |-> -1, text |-> instrument,
              y |-> PageHeight - margin - 7 * mm, page |-> 0]>>
        \o (IF Truthy(tuning) /\ ~is_drums
            THEN <<[op |-> "tuning", idx |-> -1,
                    names |-> Reverse([i \in DOMAIN tuning |-> MidiName(tuning[i])]),
                    y |-> PageHeight - margin - 12 * mm, page |-> 0]>>
            ELSE << >>)

OpenCanvas ==
    /\ pc = "normalized"
    /\ canvas' = "open"
    /\ ops' = HeaderOps
    /\ current_x' = tab_x_start
    /\ current_y' = FirstLineY
    /\ measure_count' = 0
    /\ line_height' = num_strings * string_spacing + line_spacing
    /\ current_signature' = None
    /\ last_shown_tempo' = None
    /\ is_first_line' = TRUE
    /\ measure_idx' = start_measure
    /\ pc' = "loop"
    /\ UNCHANGED <<data, track_info, result, saves, page, num_strings, tuning,
                   is_drums, start_measure, beat_widths>>

\* lines 199-239
BeginMeasure ==
    /\ pc = "loop"
    /\ measure_idx < Len(Measures(data))
    /\ LET signature == CarrySignature(CurrentMeasure, current_signature)
           current_tempo == get_tempo_at_measure(Get(data, "automations", << >>), measure_idx)
       IN  /\ current_signature' = signature
           /\ ops' = IF CursorCount = 0 THEN ops \o LineHeadOps(signature) ELSE ops
           /\ last_shown_tempo' =
                IF CursorCount = 0 /\ TempoChanged(current_tempo, last_shown_tempo)
                THEN <<current_tempo>> ELSE last_shown_tempo
    /\ measure_count' = CursorCount
    /\ current_x' = CursorX
    /\ current_y' = CursorY
    /\ is_first_line' = CursorFirstLine
    /\ page' = CursorPage
    /\ pc' = "frame"
    /\ UNCHANGED <<data, track_info, result, canvas, saves, num_strings, tuning,
                   is_drums, start_measure, line_height, measure_idx, beat_widths>>

\* lines 241-257: string lines, bar lines and the measure number
FrameOp ==
    [op |-> "frame", idx |-> measure_idx, x |-> current_x,
     right |-> current_x + measure_width, y |-> current_y,
     bottom_y |-> current_y - (num_strings - 1) * string_spacing,
     lines |-> num_strings, label |-> measure_idx + 1, col |-> measure_count,
     page |-> page]

DrawFrame ==
    /\ pc = "frame"
    /\ ops' = Append(ops, FrameOp)
    /\ pc' = "beats"
    /\ UNCHANGED <<data, track_info, result, canvas, saves, page, num_strings, tuning,
                   is_drums, start_measure, current_x, current_y, measure_count,
                   line_height, current_signature, last_shown_tempo, is_first_line,
                   measure_idx, beat_widths>>

Content == MeasureContent(CurrentMeasure, measure_idx, current_x, current_y, num_strings)

\* lines 259-311
DrawBeats ==
    /\ pc = "beats"
    /\ ~Content.raised
    /\ ops' = ops \o Content.ops
    /\ beat_widths' = Content.widths
    /\ current_x' = current_x + measure_width
    /\ measure_count' = measure_count + 1
    /\ measure_idx' = measure_idx + 1
    /\ pc' = "loop"
    /\ UNCHANGED <<data, track_info, result, canvas, saves, page, num_strings, tuning,
                   is_drums, start_measure, current_y, line_height, current_signature,
                   last_shown_tempo, is_first_line>>

\* lines 263 and 288: an exception leaves convert; nothing catches it there
DrawBeatsRaise ==
    /\ pc = "beats"
    /\ Content.raised
    /\ ops' = ops \o Content.ops
    /\ beat_widths' = Content.widths
    /\ pc' = "raised"
    /\ result' = "raised"
    /\ UNCHANGED <<data, track_info, canvas, saves, page, num_strings, tuning,
                   is_drums, start_measure, current_x, current_y, measure_count,
                   line_height, current_signature, last_shown_tempo, is_first_line,
                   measure_idx>>

\* lines 313-314
Save ==
    /\ pc = "loop"
    /\ measure_idx >= Len(Measures(data))
    /\ canvas' = "saved"
    /\ saves' = saves + 1
    /\ result' = "output_path"
    /\ pc' = "returned"
    /\ UNCHANGED <<data, track_info, page, ops, num_strings, tuning, is_drums,
                   start_measure, current_x, current_y, measure_count, line_height,
                   current_signature, last_shown_tempo, is_first_line, measure_idx,
                   beat_widths>>

-----------------------------------------------------------------------------
(* The inputs convert is run on. *)

PlainNote == [string |-> Num(0), fret |-> 3]
PlainBeat == [duration |-> <<1, 4>>, type |-> 4, notes |-> <<PlainNote>>]
PlainVoice == [beats |-> <<PlainBeat>>]
PlainMeasure == [voices |-> <<PlainVoice>>]
RestMeasure == [rest |-> TRUE, voices |-> <<[beats |-> <<[duration |-> <<1, 1>>, type |-> 1,
                                                          notes |-> <<[rest |-> TRUE]>>]>>]>>]

GuitarTuning == <<64, 59, 55, 50, 45, 40>>
BassTuning == <<43, 38, 33, 28>>

\* Documents of up to MaxShort measures, each with or without 'rest' and 'signature'.
SignatureMeasures ==
    {PlainMeasure,
     [rest |-> FALSE, voices |-> <<PlainVoice>>],
     RestMeasure,
     [rest |-> TRUE, signature |-> <<4, 4>>, voices |-> RestMeasure.voices],
     [signature |-> <<4, 4>>, voices |-> <<PlainVoice>>],
     [signature |-> <<3, 4>>, voices |-> <<PlainVoice>>]}

SignatureInputs ==
    {<<[measures |-> ms], None>> : ms \in SeqsUpTo(SignatureMeasures, MaxShort)}
    \cup {<<[instrument |-> "Electric Guitar"], None>>,
          <<[measures |-> << >>, instrument |-> "Drums"],
            [artist |-> "A", title |-> "T", instrument |-> "Drums"]>>}

\* One-measure documents whose first voice has up to MaxBeats beats.
BeatKinds ==
    {[duration |-> <<1, 4>>, type |-> 4, notes |-> <<PlainNote>>],
     [duration |-> <<1, 8>>, type |-> 8, notes |-> <<PlainNote>>],
     [duration |-> <<3, 16>>, type |-> 16, notes |-> <<PlainNote>>],
     [duration |-> <<0, 4>>, type |-> 32, notes |-> <<PlainNote>>],
     [duration |-> <<-1, 4>>, type |-> 12, notes |-> <<PlainNote>>],
     [duration |-> <<1, 0>>, type |-> 1, notes |-> <<PlainNote>>],
     [notes |-> <<PlainNote>>]}

BeatInputs ==
    {<<[measures |-> <<[voices |-> <<[beats |-> bs]>>]>>, tuning |-> GuitarTuning], None>> :
        bs \in SeqsUpTo(BeatKinds, MaxBeats)}

\* Two-measure documents whose first beat has up to MaxNotes notes.
NoteKinds ==
    {PlainNote,
     [string |-> Num(25), fret |-> 0],
     [rest |-> TRUE, string |-> Num(10), fret |-> 5],
     [string |-> Num(10)],
     [string |-> Num(60), fret |-> 1],
     [string |-> Num(-10), fret |-> 5],
     [string |-> Text, fret |-> 2],
     [fret |-> 7]}

HighVoice == [beats |-> <<[duration |-> <<1, 4>>, type |-> 4,
                            notes |-> <<[string |-> Num(70), fret |-> 1]>>]>>]

NoteVoices(ns) ==
    {<<[beats |-> <<[duration |-> <<1, 4>>, type |-> 8, notes |-> ns]>>]>>,
     <<[beats |-> <<[duration |-> <<1, 4>>, type |-> 8, notes |-> ns]>>], HighVoice>>}

NoteSettings ==
    {<<<< >>, None>>,
     <<[strings |-> 4], None>>,
     <<[instrument |-> "Drums", strings |-> 4], None>>,
     <<[tuning |-> GuitarTuning], [artist |-> "A", title |-> "T",
                                  instrument |-> "Electric Guitar", tuning |-> BassTuning]>>,
     <<<< >>, [artist |-> "A", title |-> "", instrument |-> "Bass", tuning |-> BassTuning]>>,
     <<<< >>, [instrument |-> "DRUM KIT", tuning |-> BassTuning]>>}

WithMeasures(d, ms) ==
    [k \in DOMAIN d \cup {"measures"} |-> IF k = "measures" THEN ms ELSE d[k]]

NoteInputs ==
    {<<WithMeasures(st[1], <<[voices |-> vs], PlainMeasure>>), st[2]>> :
        vs \in UNION {NoteVoices(ns) : ns \in SeqsUpTo(NoteKinds, MaxNotes)},
        st \in NoteSettings}

\* Long documents of plain measures, for every declared string count that
\* gives the pages a different number of lines.
StringCounts == {6, 10, 21, 25}

LongMeasures(n) ==
    [i \in 1..n |->
        IF i = 1 THEN [signature |-> <<4, 4>>, voices |-> <<PlainVoice>>]
        ELSE IF i = 7 THEN [signature |-> <<3, 4>>, voices |-> <<PlainVoice>>]
        ELSE PlainMeasure]

LongInputs ==
    {<<[measures |-> LongMeasures(n), strings |-> k,
        automations |-> [tempo |-> <<[measure |-> 0, bpm |-> 120],
                                     [measure |-> 4, bpm |-> 140]>>]], None>> :
        n \in 0..MaxMeasures, k \in StringCounts}

\* Documents whose declared string count is about as tall as a page: 78
\* lines are the most whose first line fits page 1, 81 the most on a later page.
TallCounts == {78, 79, 82}

TallInputs ==
    {<<[measures |-> LongMeasures(n), strings |-> k], None>> :
        n \in 0..MaxTall, k \in TallCounts}

\* Tempo documents: breakpoint lists in measure order (the document's
\* 'ordered sequence' of breakpoints), over up to MaxTempoMeasures measures.
Breakpoints ==
    {[measure |-> m, bpm |-> b] : m \in {0, 4, 5}, b \in {120, 140}}
    \cup {[bpm |-> 100], [measure |-> 2]}

TempoLists ==
    {t \in SeqsUpTo(Breakpoints, 2) :
        \A i \in 1..(Len(t) - 1) : Get(t[i], "measure", 0) <= Get(t[i + 1], "measure", 0)}

TempoMeasures(n, lead) ==
    [i \in 1..n |-> IF i <= lead THEN RestMeasure ELSE PlainMeasure]

TempoInputs ==
    {<<[measures |-> TempoMeasures(n, lead), automations |-> [tempo |-> t]], None>> :
        n \in 1..MaxTempoMeasures, lead \in {0, 1}, t \in TempoLists}
    \cup {<<[measures |-> TempoMeasures(n, 0)], None>> : n \in 1..MaxTempoMeasures}

\* Percussion documents: one measure holds a note on string index 6, in its
\* first or in its second voice; every other note is on string 2.
DrumNote(s) == [string |-> Num(10 * s), fret |-> 42]
DrumVoice(s) == [beats |-> <<[duration |-> <<1, 4>>, type |-> 8, notes |-> <<DrumNote(s)>>]>>]

DrumMeasures(n, high, voice) ==
    [i \in 1..n |->
        IF i # high THEN [voices |-> <<DrumVoice(2)>>]
        ELSE IF voice = 1 THEN [voices |-> <<DrumVoice(6)>>]
        ELSE [voices |-> <<DrumVoice(2), DrumVoice(6)>>]]

DrumInputs ==
    UNION {{<<[measures |-> DrumMeasures(n, high, voice), instrument |-> "Drums",
                strings |-> 6], None>> : high \in {1, n}, voice \in {1, 2}} :
           n \in 1..MaxMeasures}
    \cup {<<[measures |-> DrumMeasures(n, 0, 1), strings |-> 6],
            [instrument |-> "Drums"]>> : n \in 1..2}

Inputs ==
    SignatureInputs \cup BeatInputs \cup NoteInputs \cup LongInputs
        \cup TempoInputs \cup DrumInputs \cup TallInputs

\* convert(json_path, output_path, track_info) is entered on one input.
Init ==
    /\ \E input \in Inputs : data = input[1] /\ track_info = input[2]
    /\ pc = "start"
    /\ result = "pending"
    /\ canvas = "none"
    /\ saves = 0
    /\ page = 0
    /\ ops = << >>
    /\ num_strings = 0
    /\ tuning = None
    /\ is_drums = FALSE
    /\ start_measure = 0
    /\ current_x = 0
    /\ current_y = 0
    /\ measure_count = 0
    /\ line_height = 0
    /\ current_signature = None
    /\ last_shown_tempo = None
    /\ is_first_line = TRUE
    /\ measure_idx = 0
    /\ beat_widths = << >>

Next ==
    \/ LoadEmpty
    \/ Normalize
    \/ NormalizeRaise
    \/ OpenCanvas
    \/ BeginMeasure
    \/ DrawFrame
    \/ DrawBeats
    \/ DrawBeatsRaise
    \/ Save

Spec == Init /\ [][Next]_vars

-----------------------------------------------------------------------------
(* Reading the drawing. *)

IsFrame(o) == o.op = "frame"

Frames == SelectSeq(ops, IsFrame)

Opened == canvas # "none"

\* the string count has been resolved: lines 137-157 are behind
Resolved == pc = "normalized" \/ Opened

-----------------------------------------------------------------------------
(* C1: a document whose 'measures' is empty or absent makes convert return *)
(* None without raising, and the canvas is never opened, drawn on or saved *)
(* (zero pages, no output).                                                *)
C1_EmptyIsNoOp ==
    ~Truthy(Measures(data)) =>
        /\ pc \in {"start", "returned"}
        /\ pc = "returned" => result = "None"
        /\ result \in {"pending", "None"}
        /\ canvas = "none" /\ saves = 0 /\ page = 0 /\ ops = << >>

C1_Witness ==
    /\ pc = "returned"
    /\ "measures" \notin DOMAIN data
    /\ result = "None"

-----------------------------------------------------------------------------
(* C2: at every rendered measure the active signature is the one supplied  *)
(* by the latest measure of the document at or before it that supplies     *)
(* one (so it never reverts to undefined once a measure has set it).       *)
RECURSIVE LatestSignature(_, _)
LatestSignature(measures, at) ==
    IF at < 0 THEN None
    ELSE IF Truthy(Get(measures[at + 1], "signature", None))
         THEN measures[at + 1]["signature"]
         ELSE LatestSignature(measures, at - 1)

C2_CarryForward ==
    pc = "frame" => current_signature = LatestSignature(Measures(data), measure_idx)

-----------------------------------------------------------------------------
(* C3: walking the rendered measures in order, a tempo marking is drawn at *)
(* measure m if and only if the active tempo at m (the bpm of the last     *)
(* breakpoint whose measure index is <= m) differs from the last tempo     *)
(* value drawn, whatever the index of m.                                   *)
ActiveTempo(at) ==
    LET tempo == Get(Get(data, "automations", << >>), "tempo", << >>)
        reached == {i \in DOMAIN tempo : Get(tempo[i], "measure", 0) <= at}
    IN  IF reached = {} THEN DefaultBpm
        ELSE Get(tempo[CHOOSE i \in reached : \A j \in reached : j <= i], "bpm", DefaultBpm)

LastTempoDrawnBefore(at) ==
    LET earlier == {i \in DOMAIN ops : ops[i].op = "tempo" /\ ops[i].idx < at}
    IN  IF earlier = {} THEN None
        ELSE <<ops[CHOOSE i \in earlier : \A j \in earlier : j <= i].bpm>>

TempoDrawnAt(at) ==
    \E i \in DOMAIN ops : ops[i].op = "tempo" /\ ops[i].idx = at /\ ops[i].bpm = ActiveTempo(at)

C3_TempoAtEveryChange ==
    pc = "frame" =>
        (TempoDrawnAt(measure_idx) <=> <<ActiveTempo(measure_idx)>> # LastTempoDrawnBefore(measure_idx))

-----------------------------------------------------------------------------
(* C4, as amended: for every measure whose first voice has at least one    *)
(* beat of well-formed duration fractions, one width is allocated per beat *)
(* and the widths add up to the measure's usable width (its width less the *)
(* 3 mm kept free at either side) when the fractions sum to a non-zero     *)
(* value, and to zero when the fractions sum to zero (total treated as 1). *)
RECURSIVE RSum(_)
RSum(widths) == IF widths = << >> THEN RInt(0) ELSE RAdd(Head(widths), RSum(Tail(widths)))

RECURSIVE Product(_)
Product(ns) == IF ns = << >> THEN 1 ELSE Head(ns) * Product(Tail(ns))

\* the beats' fractions summed over their common denominator
ScaledTotal(beats) ==
    LET dens == [i \in DOMAIN beats |-> BeatDuration(beats[i])[2]]
        scaled == [i \in DOMAIN beats |->
                      <<BeatDuration(beats[i])[1] * (Product(dens) \div dens[i]), 1>>]
    IN  RSum(scaled)[1]

\* the measure whose beats were laid out last
LaidOut == pc = "loop" /\ measure_idx > start_measure

LaidOutBeats == FirstVoiceBeats(Measures(data)[measure_idx])

-----------------------------------------------------------------------------
(* C5, as amended: rendered measures fill lines of exactly 4 in order; a   *)
(* new page starts exactly when the new line's top would lie less than one *)
(* line height above the bottom margin.  The first page, which starts      *)
(* below the header, holds L1 = max(1, floor(247 mm / lineHeight)) lines   *)
(* and every later page LN = max(1, floor(257 mm / lineHeight)), so        *)
(* rendered measure k lands on page 0 when k < 4 * L1 and on page          *)
(* 1 + floor((k - 4 * L1) / (4 * LN)) otherwise.                           *)
LinesOnFirstPage == Max(1, (247 * mm) \div line_height)
LinesOnLaterPage == Max(1, (257 * mm) \div line_height)

ExpectedPage(k) ==
    IF k < 4 * LinesOnFirstPage THEN 0
    ELSE 1 + (k - 4 * LinesOnFirstPage) \div (4 * LinesOnLaterPage)

ExpectedRow(k) ==
    IF k < 4 * LinesOnFirstPage THEN k \div 4
    ELSE ((k - 4 * LinesOnFirstPage) % (4 * LinesOnLaterPage)) \div 4

LastOp == ops[Len(ops)]

C5_Pagination ==
    pc = "beats" =>
        LET k == LastOp.idx - start_measure
        IN  /\ LastOp.op = "frame"
            /\ LastOp.col = k % 4
            /\ LastOp.x = tab_x_start + (k % 4) * measure_width
            /\ LastOp.page = ExpectedPage(k)
            /\ LastOp.y = (IF LastOp.page = 0 THEN 262 * mm ELSE 272 * mm)
                             - ExpectedRow(k) * line_height

\* 9 measures with exactly 2 lines on every page: the 9th is alone on page 2
C5_Witness ==
    /\ pc = "beats"
    /\ LinesOnFirstPage = 2 /\ LinesOnLaterPage = 2
    /\ Len(Measures(data)) = 9
    /\ LastOp.idx = 8 /\ LastOp.page = 1 /\ LastOp.col = 0

\* C5 as stated: one number of lines per page L places rendered measure k
\* on page floor(k / (4 * L)).
C5_UniformPages ==
    (pc = "returned" /\ canvas = "saved") =>
        \E L \in 1..(Len(Measures(data)) + 1) :
            \A i \in DOMAIN ops :
                ops[i].op = "frame" => ops[i].page = (ops[i].idx - start_measure) \div (4 * L)

-----------------------------------------------------------------------------
(* C6: in percussion mode the number of string lines is max(M + 1, 5), M   *)
(* being the largest string index a note of the first 30 measures refers   *)
(* to (later measures are not scanned); it replaces the declared count.    *)
SetMax(S) == CHOOSE x \in S : \A y \in S : y <= x

NoteIndices(measure) ==
    LET voices == Get(measure, "voices", << >>)
    IN  UNION {UNION {{IntFloat(NoteString(Get(Get(voices[v], "beats", << >>)[b], "notes", << >>)[n])) :
                          n \in DOMAIN Get(Get(voices[v], "beats", << >>)[b], "notes", << >>)} :
                      b \in DOMAIN Get(voices[v], "beats", << >>)} :
               v \in DOMAIN voices}

First30Indices ==
    UNION {NoteIndices(Measures(data)[m]) : m \in {i \in DOMAIN Measures(data) : i <= 30}}

C6_PercussionStrings ==
    (Resolved /\ is_drums) =>
        /\ num_strings = IF First30Indices = {} THEN 5 ELSE Max(SetMax(First30Indices) + 1, 5)
        /\ pc = "beats" => LastOp.lines = num_strings

C6_Witness ==
    /\ pc = "beats"
    /\ is_drums
    /\ Len(Measures(data)) > 30
    /\ SetMax(First30Indices) = 6
    /\ Get(data, "strings", 0) = 6
    /\ LastOp.lines = 7

-----------------------------------------------------------------------------
(* C7: a note whose string index cannot be converted to an integer does    *)
(* not abort the render: convert does not raise on it.                     *)
MalformedNote(measure) ==
    LET voices == Get(measure, "voices", << >>)
    IN  \E v \in DOMAIN voices : \E b \in DOMAIN Get(voices[v], "beats", << >>) :
            \E n \in DOMAIN Get(Get(voices[v], "beats", << >>)[b], "notes", << >>) :
                FloatRaises(NoteString(Get(Get(voices[v], "beats", << >>)[b], "notes", << >>)[n]))

HasMalformedNote == \E m \in DOMAIN Measures(data) : MalformedNote(Measures(data)[m])

C7_MalformedNoteSkipped == HasMalformedNote => pc # "raised"

-----------------------------------------------------------------------------
(* C8: every call of convert that opens the canvas has saved it exactly    *)
(* once when it is left, whether it returns or raises.                     *)
C8_CanvasFinalizedOnce ==
    (pc \in {"returned", "raised"} /\ Opened) => (canvas = "saved" /\ saves = 1)

-----------------------------------------------------------------------------
(* C9: the time signature is drawn exactly once at the first measure of    *)
(* every line, on every line of every page, whenever a signature is active *)
(* at that measure.                                                        *)
SignaturesDrawnAt(at) == {i \in DOMAIN ops : ops[i].op = "timesig" /\ ops[i].idx = at}

C9_SignatureEveryLine ==
    (pc = "frame" /\ measure_count = 0 /\ Truthy(current_signature)) =>
        Cardinality(SignaturesDrawnAt(measure_idx)) = 1

-----------------------------------------------------------------------------
(* C10: the measures that get a frame are those from startMeasure (the     *)
(* first measure whose rest is false or missing, 0 when all are rests) to  *)
(* the last one, each once, in increasing order, none before startMeasure, *)
(* each labelled with its index + 1.                                       *)
ContentIndices ==
    {i \in 0..(Len(Measures(data)) - 1) : ~Get(Measures(data)[i + 1], "rest", FALSE)}

FirstContent ==
    IF ContentIndices = {} THEN 0
    ELSE CHOOSE i \in ContentIndices : \A j \in ContentIndices : i <= j

C10_FramedMeasures ==
    Opened =>
        /\ \A i \in DOMAIN Frames :
              /\ Frames[i].idx = FirstContent + i - 1
              /\ Frames[i].idx < Len(Measures(data))
              /\ Frames[i].label = Frames[i].idx + 1
        /\ Len(Frames) = (measure_idx - FirstContent) + (IF pc \in {"beats", "raised"} THEN 1 ELSE 0)
        /\ result = "output_path" => Len(Frames) = Len(Measures(data)) - FirstContent

C10_Witness ==
    /\ result = "output_path"
    /\ FirstContent = 2
    /\ "rest" \notin DOMAIN Measures(data)[3]
    /\ Len(Frames) = 2
    /\ Frames[1].label = 3

-----------------------------------------------------------------------------
(* C11, as amended: the number of string lines is the percussion scan's    *)
(* result when the track is percussion (whether or not trackInfo supplies  *)
(* a tuning); otherwise the length of trackInfo.tuning when trackInfo      *)
(* supplies a tuning; otherwise the document's declared string count, or 6 *)
(* when none is declared.                                                  *)
TuningSupplied ==
    /\ track_info # << >>
    /\ "tuning" \in DOMAIN track_info
    /\ track_info["tuning"] # << >>

PercussionScanResult ==
    IF First30Indices = {} THEN 5 ELSE Max(SetMax(First30Indices) + 1, 5)

DeclaredOrSix == IF "strings" \in DOMAIN data THEN data["strings"] ELSE 6

C11_PercussionBeforeTuning ==
    Resolved =>
        /\ num_strings = IF is_drums THEN PercussionScanResult
                         ELSE IF TuningSupplied THEN Len(track_info["tuning"])
                         ELSE DeclaredOrSix
        /\ pc = "beats" => LastOp.lines = num_strings

C11_Witness ==
    /\ pc = "beats"
    /\ is_drums
    /\ TuningSupplied
    /\ Len(track_info["tuning"]) = 4
    /\ LastOp.lines = 7

\* C11 as stated: a supplied tuning comes first, then the percussion scan.
C11_TuningBeforePercussion ==
    Resolved =>
        num_strings = IF TuningSupplied THEN Len(track_info["tuning"])
                      ELSE IF is_drums THEN PercussionScanResult
                      ELSE DeclaredOrSix

-----------------------------------------------------------------------------
(* C12: the voices of a measure beyond the first have no effect on the    *)
(* drawing.  The drawing is a function of the resolved string count and of *)
(* the first voices (MeasureContent reads FirstVoiceBeats only), so the    *)
(* claim comes down to the string count: it must be the one resolved for   *)
(* the same document with every voice beyond the first removed.            *)
FirstVoiceOnly(measure) ==
    IF "voices" \in DOMAIN measure /\ Len(measure["voices"]) > 1
    THEN [measure EXCEPT !["voices"] = <<measure["voices"][1]>>]
    ELSE measure

\* the document with every voice beyond the first removed
FirstVoiceDocument ==
    IF "measures" \in DOMAIN data
    THEN WithMeasures(data, [m \in DOMAIN data["measures"] |-> FirstVoiceOnly(data["measures"][m])])
    ELSE data

\* In normal mode the extra voices are not read at all: string count and
\* measure content are those of the document without them.
NormalModeIgnoresExtraVoices ==
    /\ (Resolved /\ ~is_drums) =>
          num_strings = ResolveStrings(FirstVoiceDocument, track_info)
    /\ (pc = "beats" /\ ~is_drums) =>
          Content = MeasureContent(FirstVoiceOnly(CurrentMeasure), measure_idx,
                                   current_x, current_y, num_strings)

\* C12: the number of string lines (and with it labels, line height and
\* page count) is the one the document without the extra voices gets, in
\* normal and in percussion mode.
C12_ExtraVoicesIgnored ==
    Resolved => num_strings = ResolveStrings(FirstVoiceDocument, track_info)

-----------------------------------------------------------------------------
(* C13: a beat gets a rhythm stem exactly when at least one of its notes   *)
(* was actually drawn, and a note is drawn exactly when it is not a rest,  *)
(* has a fret and its string index lies in 0 .. numStrings - 1.  Read on   *)
(* the measure that has just been laid out.                                *)
OpsOfBeat(kind, b) ==
    {k \in DOMAIN ops : /\ ops[k].op = kind
                        /\ ops[k].idx = measure_idx - 1
                        /\ ops[k].beat = b - 1}

StemDrawn(b) == OpsOfBeat("stem", b) # {}

NoteDrawn(b) == OpsOfBeat("note", b) # {}

\* the claim's condition for a note to be drawn
Drawable(note) ==
    /\ ~Get(note, "rest", FALSE)
    /\ "fret" \in DOMAIN note
    /\ ~FloatRaises(NoteString(note))
    /\ IntFloat(NoteString(note)) \in 0 .. num_strings - 1

HasDrawable(beat) ==
    \E j \in DOMAIN Get(beat, "notes", << >>) : Drawable(beat["notes"][j])

\* C13, the stem: a stem is drawn for a beat exactly when a note of that
\* beat was drawn, so a beat whose notes are all rests, fretless or off the
\* staff has none.
C13_StemIffNoteDrawn ==
    LaidOut => \A b \in DOMAIN LaidOutBeats : StemDrawn(b) <=> NoteDrawn(b)

\* C13, the notes: a note is drawn exactly under the claim's condition.
NoteDrawnIffDrawable ==
    LaidOut => \A b \in DOMAIN LaidOutBeats : NoteDrawn(b) <=> HasDrawable(LaidOutBeats[b])

\* what the code does: the stem follows has_notes, set by every non-rest
\* note with a fret whatever its string index (line 287)
StemFollowsFret ==
    LaidOut => \A b \in DOMAIN LaidOutBeats :
        StemDrawn(b) <=>
            \E j \in DOMAIN Get(LaidOutBeats[b], "notes", << >>) :
                /\ ~Get(LaidOutBeats[b]["notes"][j], "rest", FALSE)
                /\ "fret" \in DOMAIN LaidOutBeats[b]["notes"][j]

-----------------------------------------------------------------------------
(* C14: whenever a measure frame is drawn, its column is in 0 .. 3, its    *)
(* left edge is the tab start plus column times the measure width, its     *)
(* right edge does not pass the right margin, and its lowest string line   *)
(* is at or above the bottom margin, for every resolved string count and   *)
(* on the first line of every page.                                        *)
FrameAcross ==
    /\ LastOp.col \in 0 .. measures_per_line - 1
    /\ LastOp.x = tab_x_start + LastOp.col * measure_width
    /\ LastOp.right <= PageWidth - margin

FrameAboveMargin == LastOp.bottom_y >= margin

C14_FramesInsidePage ==
    pc = "beats" => FrameAcross /\ FrameAboveMargin

\* the most string lines whose first line, drawn from top, stays above the margin
LinesThatFit(top) == (top - margin) \div string_spacing + 1

\* What holds: across the page the frame is always inside; down the page it
\* is inside except on the first line of a page, when the string lines are
\* more than fit between that line's top and the bottom margin.
FramesInsideUnlessTall ==
    pc = "beats" =>
        /\ FrameAcross
        /\ ~FrameAboveMargin <=>
              /\ is_first_line
              /\ num_strings > LinesThatFit(IF page = 0 THEN FirstLineY ELSE NextPageY)

=============================================================================
